---- MODULE Spec2Model ----
(***************************************************************************)
(* Model of the rmqtt plugin Manager (rmqtt/src/plugin.rs) and of the      *)
(* subscribe-acknowledgement merge of the unified message model            *)
(* (rmqtt/src/broker/types.rs).                                            *)
(*                                                                         *)
(* Spec     : the plugin Manager, one action per Manager method.  The      *)
(*            outcome of every Plugin callback (init/start/stop/...) is an *)
(*            input of the action that invokes it.                         *)
(* SpecAck  : SubscribeAck::merge_from on acknowledgements drawn from      *)
(*            bounded sets.                                                *)
(* SpecFn   : the merge functions less_value, v3_merge and v5_merge, each  *)
(*            applied to a drawn pair of arguments.                        *)
(* SpecSub  : adjust_topic_filters on a drawn Subscribe or Unsubscribe.    *)
(* SpecHook : the hook registry and one dispatch chain at a time, with the *)
(*            newcapec plugin's handlers (rmqtt-newcapec/src/lib.rs).      *)
(* SpecConc : the plugin Manager called by concurrent tasks, each call     *)
(*            split at its DashMap operations and at its awaits.           *)
(* SpecId   : Id::new, eq and hash on two drawn argument lists.            *)
(* SpecHookCall : NewcapecHandler::hook applied to a drawn Parameter.      *)
(* SpecPub  : set_packet_id and the packet id accessors of a drawn Publish.*)
(***************************************************************************)
EXTENDS Integers, Sequences, FiniteSets, TLC

(***************************************************************************)
(* Bounds                                                                  *)
(***************************************************************************)
\* number of Box<dyn Plugin> values ever handed to Manager::register
MaxInstances == 3
\* longest return-code / status vector of a SubscribeAck
MaxLen == 2
\* number of handlers ever added to the hook registry
MaxHandlers == 3
\* number of register calls of the concurrent tasks
MaxRegisters == 2

\* module names, the keys of Manager::plugins
Names == {"p", "q"}

VARIABLES
    plugins,   \* Manager::plugins : name -> Entry (a function on the registered names)
    nextInst,  \* identity of the next Box<dyn Plugin> passed to register
    last,      \* the last Manager call: method, arguments, result, effects in order
    before,    \* Manager::plugins as it was when the last call began
    inits,     \* the plugins whose init was invoked, and those whose init was invoked again
    ack,       \* the receiver of SubscribeAck::merge_from
    mcall,     \* the last merge_from call: argument, receiver before, outcome
    fcall,     \* the last call of a pure merge function: arguments and result
    sub,       \* a Subscribe packet
    unsub,     \* an Unsubscribe packet
    scall,     \* the last call on the Subscribe or Unsubscribe: method, argument, result
    hooks,     \* the hook registry: event kind -> its (priority, handler) entries in dispatch order
    nextHandler, \* identity of the next handler added to the registry
    chain,     \* the dispatch chain in progress, its handler calls so far and its result
    shardOf,   \* DashMap: the shard each name hashes to
    locks,     \* DashMap: the read-write lock of each shard, its writer and its readers
    tasks,     \* the concurrent tasks calling the Manager: call in progress and position in it
    running,   \* the plugins whose start succeeded and no later stop reported did_stop = true
    workers,   \* the number of worker threads of the executor
    idcall,    \* two Id::new argument lists, the identities built from them, their eq and hash
    hcall,     \* a direct call of NewcapecHandler::hook: parameter, prior result, returned pair
    pub,       \* a Publish
    pubcall    \* the last call on the Publish: the Publish before it, its argument, its results

vars == <<plugins, nextInst, last, before, inits, ack, mcall, fcall, sub, unsub, scall,
          hooks, nextHandler, chain, shardOf, locks, tasks, running, workers,
          idcall, hcall, pub, pubcall>>
mgrVars == <<plugins, nextInst, last, before, inits>>
ackVars == <<ack, mcall, fcall>>
subVars == <<sub, unsub, scall>>
\* what the Manager, the acknowledgements and the subscribe packets leave alone
hookVars == <<hooks, nextHandler, chain>>
concVars == <<shardOf, locks, tasks, running, workers>>
pureVars == <<idcall, hcall, pub, pubcall>>
nonMgrVars == <<ackVars, subVars, hookVars, concVars, pureVars>>
nonAckVars == <<mgrVars, subVars, hookVars, concVars, pureVars>>
nonSubVars == <<mgrVars, ackVars, hookVars, concVars, pureVars>>
nonHookVars == <<mgrVars, ackVars, subVars, concVars, pureVars>>
nonConcVars == <<last, before, inits, ackVars, subVars, hookVars, pureVars>>
nonPureVars == <<mgrVars, ackVars, subVars, hookVars, concVars>>

(***************************************************************************)
(* Plugin callbacks (trait Plugin): the results a module may return        *)
(***************************************************************************)
UnitResults == {"Ok", "Err"}
StopResults == {"OkTrue", "OkFalse", "Err"}

\* Entry { inited, active, plugin }
Entry(i, a, p) == [inited |-> i, active |-> a, plugin |-> p]

\* one effect of a Manager call: a directory update or a Plugin callback with the value it returned
Ev(e, p, r) == [ev |-> e, inst |-> p, ret |-> r]

Outcome(dir, res, tr) == [plugins |-> dir, result |-> res, trace |-> tr]

\* DashMap::remove / DashMap::insert on the directory
MapRemove(dir, name) == [k \in (DOMAIN dir) \ {name} |-> dir[k]]

MapInsert(dir, name, e) == [k \in (DOMAIN dir) \cup {name} |-> IF k = name THEN e ELSE dir[k]]

(***************************************************************************)
(* Manager::register(plugin, default_startup)                              *)
(***************************************************************************)
\* variant of register that leaves a replaced module running
register_KeepsOldRunning(dir, plugin, name, default_startup, stopRes, initRes, startRes) ==
    LET had == name \in DOMAIN dir
        d1  == MapRemove(dir, name)
        t1  == IF had THEN <<Ev("remove", dir[name].plugin, "")>> ELSE <<>>
    IN  IF ~default_startup
        THEN Outcome(MapInsert(d1, name, Entry(FALSE, FALSE, plugin)), "Ok",
                     t1 \o <<Ev("insert", plugin, "")>>)
        ELSE IF initRes = "Err"
        THEN Outcome(d1, "Err", t1 \o <<Ev("init", plugin, initRes)>>)
        ELSE IF startRes = "Err"
        THEN Outcome(d1, "Err", t1 \o <<Ev("init", plugin, initRes), Ev("start", plugin, startRes)>>)
        ELSE Outcome(MapInsert(d1, name, Entry(TRUE, TRUE, plugin)), "Ok",
                     t1 \o <<Ev("init", plugin, initRes), Ev("start", plugin, startRes), Ev("insert", plugin, "")>>)

\* variant of register that starts a default_startup module without initializing it
register_SkipsInit(dir, plugin, name, default_startup, stopRes, initRes, startRes) ==
    LET had     == name \in DOMAIN dir
        d1      == MapRemove(dir, name)
        t0      == IF had THEN <<Ev("remove", dir[name].plugin, "")>> ELSE <<>>
        stopped == had /\ dir[name].active
        t1      == IF stopped THEN t0 \o <<Ev("stop", dir[name].plugin, stopRes)>> ELSE t0
    IN  IF stopped /\ stopRes = "Err"
        THEN Outcome(d1, "Err", t1)
        ELSE IF ~default_startup
        THEN Outcome(MapInsert(d1, name, Entry(FALSE, FALSE, plugin)), "Ok",
                     t1 \o <<Ev("insert", plugin, "")>>)
        ELSE IF startRes = "Err"
        THEN Outcome(d1, "Err", t1 \o <<Ev("start", plugin, startRes)>>)
        ELSE Outcome(MapInsert(d1, name, Entry(TRUE, TRUE, plugin)), "Ok",
                     t1 \o <<Ev("start", plugin, startRes), Ev("insert", plugin, "")>>)

register(dir, plugin, name, default_startup, stopRes, initRes, startRes) ==
    LET had     == name \in DOMAIN dir
        d1      == MapRemove(dir, name)
        t0      == IF had THEN <<Ev("remove", dir[name].plugin, "")>> ELSE <<>>
        stopped == had /\ dir[name].active
        t1      == IF stopped THEN t0 \o <<Ev("stop", dir[name].plugin, stopRes)>> ELSE t0
    IN  IF stopped /\ stopRes = "Err"
        THEN Outcome(d1, "Err", t1)
        ELSE IF ~default_startup
        THEN Outcome(MapInsert(d1, name, Entry(FALSE, FALSE, plugin)), "Ok",
                     t1 \o <<Ev("insert", plugin, "")>>)
        ELSE IF initRes = "Err"
        THEN Outcome(d1, "Err", t1 \o <<Ev("init", plugin, initRes)>>)
        ELSE IF startRes = "Err"
        THEN Outcome(d1, "Err", t1 \o <<Ev("init", plugin, initRes), Ev("start", plugin, startRes)>>)
        ELSE Outcome(MapInsert(d1, name, Entry(TRUE, TRUE, plugin)), "Ok",
                     t1 \o <<Ev("init", plugin, initRes), Ev("start", plugin, startRes), Ev("insert", plugin, "")>>)

(***************************************************************************)
(* Manager::start(name)                                                    *)
(***************************************************************************)
\* variant of start that forgets `entry.active = true`
start_NeverActivates(dir, name, initRes, startRes) ==
    IF name \notin DOMAIN dir
    THEN Outcome(dir, "NotFound", <<>>)
    ELSE LET e  == dir[name]
             t1 == IF ~e.inited THEN <<Ev("init", e.plugin, initRes)>> ELSE <<>>
         IN  IF ~e.inited /\ initRes = "Err"
             THEN Outcome(dir, "Err", t1)
             ELSE IF e.active
             THEN Outcome(dir, "Ok", t1)
             ELSE IF startRes = "Err"
             THEN Outcome(dir, "Err", t1 \o <<Ev("start", e.plugin, startRes)>>)
             ELSE Outcome(dir, "Ok", t1 \o <<Ev("start", e.plugin, startRes)>>)

start(dir, name, initRes, startRes) ==
    IF name \notin DOMAIN dir
    THEN Outcome(dir, "NotFound", <<>>)
    ELSE LET e  == dir[name]
             t1 == IF ~e.inited THEN <<Ev("init", e.plugin, initRes)>> ELSE <<>>
         IN  IF ~e.inited /\ initRes = "Err"
             THEN Outcome(dir, "Err", t1)
             ELSE IF e.active
             THEN Outcome(dir, "Ok", t1)
             ELSE IF startRes = "Err"
             THEN Outcome(dir, "Err", t1 \o <<Ev("start", e.plugin, startRes)>>)
             ELSE Outcome([dir EXCEPT ![name].active = TRUE], "Ok",
                          t1 \o <<Ev("start", e.plugin, startRes)>>)

(***************************************************************************)
(* Manager::stop(name)                                                     *)
(***************************************************************************)
\* variant of stop without the `if entry.active` test
stop_SkipsActiveTest(dir, name, stopRes) ==
    IF name \notin DOMAIN dir
    THEN Outcome(dir, "NotFound", <<>>)
    ELSE LET e == dir[name]
         IN  IF stopRes = "Err"
             THEN Outcome(dir, "Err", <<Ev("stop", e.plugin, stopRes)>>)
             ELSE Outcome([dir EXCEPT ![name].active = ~(stopRes = "OkTrue")], stopRes,
                          <<Ev("stop", e.plugin, stopRes)>>)

\* variant of stop that marks the entry inactive whatever the module reports
stop_IgnoresDidStop(dir, name, stopRes) ==
    IF name \notin DOMAIN dir
    THEN Outcome(dir, "NotFound", <<>>)
    ELSE LET e == dir[name]
         IN  IF ~e.active
             THEN Outcome(dir, "NotActive", <<>>)
             ELSE IF stopRes = "Err"
             THEN Outcome(dir, "Err", <<Ev("stop", e.plugin, stopRes)>>)
             ELSE Outcome([dir EXCEPT ![name].active = FALSE], stopRes,
                          <<Ev("stop", e.plugin, stopRes)>>)

stop(dir, name, stopRes) ==
    IF name \notin DOMAIN dir
    THEN Outcome(dir, "NotFound", <<>>)
    ELSE LET e == dir[name]
         IN  IF ~e.active
             THEN Outcome(dir, "NotActive", <<>>)
             ELSE IF stopRes = "Err"
             THEN Outcome(dir, "Err", <<Ev("stop", e.plugin, stopRes)>>)
             ELSE Outcome([dir EXCEPT ![name].active = ~(stopRes = "OkTrue")], stopRes,
                          <<Ev("stop", e.plugin, stopRes)>>)

(***************************************************************************)
(* Manager::get_config / load_config / send / is_active                    *)
(***************************************************************************)
get_config(dir, name, res) ==
    IF name \in DOMAIN dir
    THEN Outcome(dir, res, <<Ev("get_config", dir[name].plugin, res)>>)
    ELSE Outcome(dir, "NotFound", <<>>)

\* variant of load_config that reports success for an unknown name
load_config_IgnoresMissing(dir, name, res) ==
    IF name \in DOMAIN dir
    THEN Outcome(dir, res, <<Ev("load_config", dir[name].plugin, res)>>)
    ELSE Outcome(dir, "Ok", <<>>)

load_config(dir, name, res) ==
    IF name \in DOMAIN dir
    THEN Outcome(dir, res, <<Ev("load_config", dir[name].plugin, res)>>)
    ELSE Outcome(dir, "NotFound", <<>>)

send(dir, name, res) ==
    IF name \in DOMAIN dir
    THEN Outcome(dir, res, <<Ev("send", dir[name].plugin, res)>>)
    ELSE Outcome(dir, "NotFound", <<>>)

is_active(dir, name) ==
    IF name \in DOMAIN dir THEN dir[name].active ELSE FALSE

(***************************************************************************)
(* QoS and the subscribe acknowledgements (broker/types.rs)                *)
(***************************************************************************)
\* enum QoS
QoS == {"AtMostOnce", "AtLeastOnce", "ExactlyOnce"}

\* QoSEx::value
value(qos) ==
    CASE qos = "AtMostOnce"  -> 0
      [] qos = "AtLeastOnce" -> 1
      [] qos = "ExactlyOnce" -> 2

\* variant of less_value with the comparison reversed
less_value_Reversed(self, qos) == IF value(self) > value(qos) THEN self ELSE qos

\* QoSEx::less_value
less_value(self, qos) == IF value(self) < value(qos) THEN self ELSE qos

\* enum SubscribeReturnCodeV3 { Success(QoS), Failure }
Failure == "Failure"

Success(qos) ==
    CASE qos = "AtMostOnce"  -> "Success(AtMostOnce)"
      [] qos = "AtLeastOnce" -> "Success(AtLeastOnce)"
      [] qos = "ExactlyOnce" -> "Success(ExactlyOnce)"

ReturnCodesV3 == {Failure} \cup {Success(q) : q \in QoS}

\* the QoS carried by a Success return code
GrantedQoS(code) == CHOOSE q \in QoS : Success(q) = code

\* enum SubscribeAckReason: the granted values and the refusals
GrantedReasons == {"GrantedQos0", "GrantedQos1", "GrantedQos2"}

SubscribeAckReasons ==
    GrantedReasons \cup
    {"UnspecifiedError", "ImplementationSpecificError", "NotAuthorized",
     "TopicFilterInvalid", "PacketIdentifierInUse", "QuotaExceeded",
     "SharedSubsriptionNotSupported", "SubscriptionIdentifiersNotSupported",
     "WildcardSubscriptionsNotSupported"}

\* variant of v3_merge that keeps the receiver's grant
v3_merge_KeepsOwnGrant(code, merged) ==
    IF merged = Failure THEN Failure
    ELSE IF code = Failure THEN Failure
    ELSE code

\* SubscribeAck::v3_merge
v3_merge(code, merged) ==
    IF merged = Failure THEN Failure
    ELSE IF code = Failure THEN Failure
    ELSE Success(less_value(GrantedQoS(code), GrantedQoS(merged)))

\* variant of v5_merge that tests the arms for GrantedQos1 before those for GrantedQos0
v5_merge_Qos1First(status, merged) ==
    IF status \notin GrantedReasons THEN merged
    ELSE IF merged \notin GrantedReasons THEN merged
    ELSE IF merged = "GrantedQos1" THEN "GrantedQos1"
    ELSE IF status = "GrantedQos1" THEN "GrantedQos1"
    ELSE IF merged = "GrantedQos0" THEN "GrantedQos0"
    ELSE IF status = "GrantedQos0" THEN "GrantedQos0"
    ELSE IF status = "GrantedQos2" /\ merged = "GrantedQos2" THEN "GrantedQos2"
    ELSE status

\* SubscribeAck::v5_merge
v5_merge(status, merged) ==
    IF status \notin GrantedReasons THEN merged
    ELSE IF merged \notin GrantedReasons THEN merged
    ELSE IF merged = "GrantedQos0" THEN "GrantedQos0"
    ELSE IF status = "GrantedQos0" THEN "GrantedQos0"
    ELSE IF merged = "GrantedQos1" THEN "GrantedQos1"
    ELSE IF status = "GrantedQos1" THEN "GrantedQos1"
    ELSE IF status = "GrantedQos2" /\ merged = "GrantedQos2" THEN "GrantedQos2"
    ELSE status

\* Option<T>
None == <<>>

Some(x) == <<x>>

\* SubscribeAck::V3(codes) and SubscribeAck::V5(SubscribeAckV5 { status, reason_string, properties })
AckV3(codes) == [variant |-> "V3", status |-> codes, reason_string |-> None, properties |-> <<>>]

AckV5(status, reason, props) ==
    [variant |-> "V5", status |-> status, reason_string |-> reason, properties |-> props]

\* Vec::remove(index), index counted from 0: the vector without that element;
\* the call panics when index >= len
VecRemove(v, index) == [j \in 1..(Len(v) - 1) |-> IF j <= index THEN v[j] ELSE v[j + 1]]

\* the loop `for (i, x) in self.iter_mut().enumerate() { *x = merge(x, merged.remove(i)) }`
\* from iteration i (counted from 0) on; xs is the receiver's vector, ms what is
\* left of the argument's vector
RECURSIVE MergeLoop(_, _, _, _)
MergeLoop(variant, xs, ms, i) ==
    IF i >= Len(xs)
    THEN [panicked |-> FALSE, status |-> xs]
    ELSE IF i >= Len(ms)
    THEN [panicked |-> TRUE, status |-> xs]
    ELSE LET m == ms[i + 1]
             x == IF variant = "V3" THEN v3_merge(xs[i + 1], m) ELSE v5_merge(xs[i + 1], m)
         IN  MergeLoop(variant, [xs EXCEPT ![i + 1] = x], VecRemove(ms, i), i + 1)

\* variant of the reason_string match that drops the merged acknowledgement's reason
MergeReason_KeepsOwn(reason1, reason2) ==
    IF reason1 = None /\ reason2 # None
    THEN reason2
    ELSE reason1

\* the reason_string match of merge_from
MergeReason(reason1, reason2) ==
    IF reason1 # None /\ reason2 # None
    THEN Some(reason1[1] \o ", " \o reason2[1])
    ELSE IF reason1 = None /\ reason2 # None
    THEN reason2
    ELSE reason1

\* what a merge_from call leaves: the receiver, how the call ended ("ok": it
\* returned (), "panic": aborted by Vec::remove) and what log::error! reported
Merged(a, outcome, log) == [ack |-> a, outcome |-> outcome, log |-> log]

\* variant of merge_from that takes over an acknowledgement of the other variant
merge_from_AdoptsOtherVariant(self, merged_ack) ==
    IF self.variant # merged_ack.variant
    THEN Merged(merged_ack, "ok", "type")
    ELSE IF Len(self.status) # Len(merged_ack.status)
    THEN Merged(self, "ok", "length")
    ELSE LET loop == MergeLoop(self.variant, self.status, merged_ack.status, 0)
             r    == IF self.variant = "V5"
                     THEN MergeReason(self.reason_string, merged_ack.reason_string)
                     ELSE self.reason_string
             ps   == IF self.variant = "V5"
                     THEN self.properties \o merged_ack.properties
                     ELSE self.properties
         IN  Merged([variant |-> self.variant, status |-> loop.status,
                     reason_string |-> r, properties |-> ps],
                    IF loop.panicked THEN "panic" ELSE "ok", "")

\* SubscribeAck::merge_from(&mut self, merged_ack)
merge_from(self, merged_ack) ==
    IF self.variant # merged_ack.variant
    THEN Merged(self, "ok", "type")
    ELSE IF Len(self.status) # Len(merged_ack.status)
    THEN Merged(self, "ok", "length")
    ELSE LET loop == MergeLoop(self.variant, self.status, merged_ack.status, 0)
             r    == IF self.variant = "V5"
                     THEN MergeReason(self.reason_string, merged_ack.reason_string)
                     ELSE self.reason_string
             ps   == IF self.variant = "V5"
                     THEN self.properties \o merged_ack.properties
                     ELSE self.properties
         IN  Merged([variant |-> self.variant, status |-> loop.status,
                     reason_string |-> r, properties |-> ps],
                    IF loop.panicked THEN "panic" ELSE "ok", "")

(***************************************************************************)
(* Acknowledgements and arguments the checks draw from                     *)
(***************************************************************************)
RECURSIVE SeqsUpTo(_, _)
SeqsUpTo(S, n) ==
    IF n = 0 THEN {<<>>}
    ELSE LET shorter == SeqsUpTo(S, n - 1)
         IN  shorter \cup {Append(t, x) : t \in {u \in shorter : Len(u) = n - 1}, x \in S}

AckStatuses == GrantedReasons \cup {"NotAuthorized"}

AckReasonStrings == {None, Some("r1"), Some("r2")}

AckProperties == {<<>>, <<"k1">>, <<"k2">>}

Acks ==
    {AckV3(c) : c \in SeqsUpTo(ReturnCodesV3, MaxLen)}
    \cup {AckV5(st, r, ps) : st \in SeqsUpTo(AckStatuses, MaxLen),
                             r \in AckReasonStrings, ps \in AckProperties}

NoMerge == [merged |-> AckV3(<<>>), before |-> AckV3(<<>>), outcome |-> "none", log |-> ""]

\* self.merge_from(merged_ack), applied to the drawn receiver
MergeFrom ==
    /\ mcall.outcome = "none"
    /\ \E merged_ack \in Acks :
          LET out == merge_from(ack, merged_ack)
          IN  /\ ack' = out.ack
              /\ mcall' = [merged |-> merged_ack, before |-> ack, outcome |-> out.outcome,
                           log |-> out.log]
    /\ UNCHANGED <<nonAckVars, fcall>>

NoFn == [fn |-> "none", a |-> "", b |-> "", r |-> ""]

Pending == "pending"

FnCall(fn, a, b) == [fn |-> fn, a |-> a, b |-> b, r |-> Pending]

\* QoSEx::less_value applied to the drawn pair
LessValue ==
    /\ fcall.fn = "less_value" /\ fcall.r = Pending
    /\ fcall' = [fcall EXCEPT !.r = less_value(fcall.a, fcall.b)]
    /\ UNCHANGED <<nonAckVars, ack, mcall>>

\* SubscribeAck::v3_merge applied to the drawn pair
V3Merge ==
    /\ fcall.fn = "v3_merge" /\ fcall.r = Pending
    /\ fcall' = [fcall EXCEPT !.r = v3_merge(fcall.a, fcall.b)]
    /\ UNCHANGED <<nonAckVars, ack, mcall>>

\* SubscribeAck::v5_merge applied to the drawn pair
V5Merge ==
    /\ fcall.fn = "v5_merge" /\ fcall.r = Pending
    /\ fcall' = [fcall EXCEPT !.r = v5_merge(fcall.a, fcall.b)]
    /\ UNCHANGED <<nonAckVars, ack, mcall>>

(***************************************************************************)
(* Subscribe and Unsubscribe (broker/types.rs)                             *)
(***************************************************************************)
\* Topic (= TopicFilter): the parsed levels of a topic filter
TopicFilters == {<<"a">>, <<"b">>, <<"a", "+">>}

\* Topic::to_string: the levels joined by '/'
RECURSIVE to_string(_)
to_string(topic) ==
    IF Len(topic) = 0 THEN ""
    ELSE IF Len(topic) = 1 THEN topic[1]
    ELSE topic[1] \o "/" \o to_string(Tail(topic))

\* Subscribe::V3(Vec<(TopicFilter, QoS)>) and Subscribe::V5(SubscribeV5 { topic_filters:
\* Vec<(ByteString, SubscriptionOptions)> }); the list of the other variant is empty
SubscribeV3(subs) == [variant |-> "V3", v3 |-> subs, v5 |-> <<>>]

SubscribeV5(topic_filters) == [variant |-> "V5", v3 |-> <<>>, v5 |-> topic_filters]

\* Unsubscribe::V3(Vec<TopicFilter>) and Unsubscribe::V5(UnsubscribeV5 { topic_filters: Vec<ByteString> })
UnsubscribeV3(unsubs) == [variant |-> "V3", v3 |-> unsubs, v5 |-> <<>>]

UnsubscribeV5(topic_filters) == [variant |-> "V5", v3 |-> <<>>, v5 |-> topic_filters]

\* Subscribe::len and Unsubscribe::len
len(self) == IF self.variant = "V3" THEN Len(self.v3) ELSE Len(self.v5)

\* what a call leaves: the packet and the value returned
Returned(self, result) == [self |-> self, result |-> result]

\* the loops `for (tf, _) in subs.iter_mut() { *tf = topic_filters.remove(0) }` of
\* Subscribe::adjust_topic_filters: the entries from the i-th on take the
\* filters left in topic_filters, first first
\* variant of the V3 loop that never takes the used filter off topic_filters
AdjustV3_FirstForAll(subs, topic_filters, i) ==
    [k \in 1..Len(subs) |-> <<Head(topic_filters), subs[k][2]>>]

RECURSIVE AdjustV3(_, _, _)
AdjustV3(subs, topic_filters, i) ==
    IF i > Len(subs) THEN subs
    ELSE AdjustV3([subs EXCEPT ![i] = <<Head(topic_filters), subs[i][2]>>],
                  VecRemove(topic_filters, 0), i + 1)

RECURSIVE AdjustV5(_, _, _)
AdjustV5(subs, topic_filters, i) ==
    IF i > Len(subs) THEN subs
    ELSE AdjustV5([subs EXCEPT ![i] = <<to_string(Head(topic_filters)), subs[i][2]>>],
                  VecRemove(topic_filters, 0), i + 1)

\* variant of Subscribe::adjust_topic_filters that replaces the filters it
\* has replacements for before it reports the mismatch
Subscribe_adjust_topic_filters_ChecksLate(self, topic_filters) ==
    LET n    == IF len(self) <= Len(topic_filters) THEN len(self) ELSE Len(topic_filters)
        tfs  == SubSeq(topic_filters, 1, n)
        done == IF self.variant = "V3"
                THEN SubscribeV3(AdjustV3(SubSeq(self.v3, 1, n), tfs, 1)
                                 \o SubSeq(self.v3, n + 1, Len(self.v3)))
                ELSE SubscribeV5(AdjustV5(SubSeq(self.v5, 1, n), tfs, 1)
                                 \o SubSeq(self.v5, n + 1, Len(self.v5)))
    IN  IF len(self) # Len(topic_filters)
        THEN Returned(done, "ServiceUnavailable")
        ELSE Returned(done, "Ok")

\* Subscribe::adjust_topic_filters
Subscribe_adjust_topic_filters(self, topic_filters) ==
    IF len(self) # Len(topic_filters)
    THEN Returned(self, "ServiceUnavailable")
    ELSE IF self.variant = "V3"
    THEN Returned(SubscribeV3(AdjustV3(self.v3, topic_filters, 1)), "Ok")
    ELSE Returned(SubscribeV5(AdjustV5(self.v5, topic_filters, 1)), "Ok")

\* variant of topic_filter that looks the index up in a V5 subscribe as well
Subscribe_topic_filter_LooksUpV5(self, idx) ==
    IF self.variant = "V3"
    THEN IF idx < Len(self.v3) THEN Some(self.v3[idx + 1][1]) ELSE None
    ELSE IF idx < Len(self.v5) THEN Some(self.v5[idx + 1][1]) ELSE None

\* Subscribe::topic_filter(idx) -> Option<&TopicFilter>
Subscribe_topic_filter(self, idx) ==
    IF self.variant = "V3"
    THEN IF idx < Len(self.v3) THEN Some(self.v3[idx + 1][1]) ELSE None
    ELSE None

\* Subscribe::remove(topic_filter): the entries with another filter, in their order
Subscribe_remove(self, topic_filter) ==
    IF self.variant = "V3"
    THEN SubscribeV3(SelectSeq(self.v3, LAMBDA e : e[1] # topic_filter))
    ELSE self

\* variant of set_qos_if_less that stops at the first entry with the filter
Subscribe_set_qos_if_less_FirstOnly(self, topic_filter, qos) ==
    IF self.variant = "V3"
    THEN SubscribeV3([k \in 1..Len(self.v3) |->
            IF self.v3[k][1] = topic_filter
               /\ \A j \in 1..(k - 1) : self.v3[j][1] # topic_filter
            THEN <<self.v3[k][1], less_value(self.v3[k][2], qos)>>
            ELSE self.v3[k]])
    ELSE self

\* Subscribe::set_qos_if_less(topic_filter, qos)
Subscribe_set_qos_if_less(self, topic_filter, qos) ==
    IF self.variant = "V3"
    THEN SubscribeV3([k \in 1..Len(self.v3) |->
            IF self.v3[k][1] = topic_filter
            THEN <<self.v3[k][1], less_value(self.v3[k][2], qos)>>
            ELSE self.v3[k]])
    ELSE self

\* the loops `for tf in unsubs.iter_mut() { *tf = topic_filters.remove(0) }` of
\* Unsubscribe::adjust_topic_filters
RECURSIVE UnsubAdjustV3(_, _, _)
UnsubAdjustV3(unsubs, topic_filters, i) ==
    IF i > Len(unsubs) THEN unsubs
    ELSE UnsubAdjustV3([unsubs EXCEPT ![i] = Head(topic_filters)],
                       VecRemove(topic_filters, 0), i + 1)

RECURSIVE UnsubAdjustV5(_, _, _)
UnsubAdjustV5(unsubs, topic_filters, i) ==
    IF i > Len(unsubs) THEN unsubs
    ELSE UnsubAdjustV5([unsubs EXCEPT ![i] = to_string(Head(topic_filters))],
                       VecRemove(topic_filters, 0), i + 1)

\* Unsubscribe::adjust_topic_filters
Unsubscribe_adjust_topic_filters(self, topic_filters) ==
    IF len(self) # Len(topic_filters)
    THEN Returned(self, "ServiceUnavailable")
    ELSE IF self.variant = "V3"
    THEN Returned(UnsubscribeV3(UnsubAdjustV3(self.v3, topic_filters, 1)), "Ok")
    ELSE Returned(UnsubscribeV5(UnsubAdjustV5(self.v5, topic_filters, 1)), "Ok")

\* the packets and replacement lists the checks draw from
\* (SubscriptionOptions is modelled by its qos)
ByteStrings == {to_string(t) : t \in TopicFilters}

Subscribes ==
    {SubscribeV3(l) : l \in SeqsUpTo(TopicFilters \X QoS, MaxLen)}
    \cup {SubscribeV5(l) : l \in SeqsUpTo(ByteStrings \X {[qos |-> q] : q \in QoS}, MaxLen)}

Unsubscribes ==
    {UnsubscribeV3(l) : l \in SeqsUpTo(TopicFilters, MaxLen)}
    \cup {UnsubscribeV5(l) : l \in SeqsUpTo(ByteStrings, MaxLen)}

Replacements == SeqsUpTo(TopicFilters, MaxLen)

NoSubCall(target) ==
    [op |-> "none", target |-> target, arg |-> <<>>, result |-> "",
     sub |-> SubscribeV3(<<>>), unsub |-> UnsubscribeV3(<<>>)]

\* one call on the packet `target` names; scall keeps both packets as they were
SubCall(op, target, arg, s, u, result) ==
    /\ scall' = [op |-> op, target |-> target, arg |-> arg, result |-> result,
                 sub |-> sub, unsub |-> unsub]
    /\ sub' = s
    /\ unsub' = u

\* subscribe.adjust_topic_filters(topic_filters)
SubscribeAdjust ==
    /\ scall.op = "none" /\ scall.target = "Subscribe"
    /\ \E topic_filters \in Replacements :
          LET out == Subscribe_adjust_topic_filters(sub, topic_filters)
          IN  SubCall("adjust_topic_filters", "Subscribe", topic_filters,
                      out.self, unsub, out.result)
    /\ UNCHANGED nonSubVars

\* unsubscribe.adjust_topic_filters(topic_filters)
UnsubscribeAdjust ==
    /\ scall.op = "none" /\ scall.target = "Unsubscribe"
    /\ \E topic_filters \in Replacements :
          LET out == Unsubscribe_adjust_topic_filters(unsub, topic_filters)
          IN  SubCall("adjust_topic_filters", "Unsubscribe", topic_filters,
                      sub, out.self, out.result)
    /\ UNCHANGED nonSubVars

\* subscribe.topic_filter(idx)
SubscribeTopicFilter ==
    /\ scall.op = "none" /\ scall.target = "Subscribe"
    /\ \E idx \in 0..MaxLen :
          SubCall("topic_filter", "Subscribe", <<idx>>, sub, unsub,
                  Subscribe_topic_filter(sub, idx))
    /\ UNCHANGED nonSubVars

\* subscribe.remove(topic_filter)
SubscribeRemove ==
    /\ scall.op = "none" /\ scall.target = "Subscribe"
    /\ \E topic_filter \in TopicFilters :
          SubCall("remove", "Subscribe", <<topic_filter>>,
                  Subscribe_remove(sub, topic_filter), unsub, "")
    /\ UNCHANGED nonSubVars

\* subscribe.set_qos_if_less(topic_filter, qos)
SubscribeSetQosIfLess ==
    /\ scall.op = "none" /\ scall.target = "Subscribe"
    /\ \E topic_filter \in TopicFilters, qos \in QoS :
          SubCall("set_qos_if_less", "Subscribe", <<topic_filter, qos>>,
                  Subscribe_set_qos_if_less(sub, topic_filter, qos), unsub, "")
    /\ UNCHANGED nonSubVars

(***************************************************************************)
(* Hook registry and dispatch (broker::hook, described by the              *)
(* specification, sections 4.3 and 5) and the newcapec plugin's use of it  *)
(* (rmqtt-newcapec/src/lib.rs)                                             *)
(***************************************************************************)
\* hook::Type, the event kinds (and the variants of hook::Parameter)
Types == {"ClientConnect", "ClientConnack", "ClientSubscribe"}

\* priorities handlers are added with
Priorities == {5, 10, 20}

HandlerEntry(priority, id, handler) == [priority |-> priority, id |-> id, handler |-> handler]

\* variant of add_priority that appends in registration order
add_priority_Appends(entries, e) == Append(entries, e)

\* Register::add_priority: the entry goes behind the entries of its kind whose
\* priority is not higher, so the entries stay in ascending priority
add_priority(entries, e) ==
    LET k == Cardinality({i \in 1..Len(entries) : entries[i].priority <= e.priority})
    IN  SubSeq(entries, 1, k) \o <<e>> \o SubSeq(entries, k + 1, Len(entries))

\* variant of the handler that reports every event as matched
NewcapecHandler_hook_MatchesAll(param, acc) == <<TRUE, acc>>

\* NewcapecHandler::hook(param, acc) -> (ok, acc); param is the variant of the Parameter
NewcapecHandler_hook(param, acc) ==
    LET ok == IF param = "ClientConnect" THEN TRUE
              ELSE IF param = "ClientConnack" THEN TRUE
              ELSE FALSE
    IN  <<ok, acc>>

\* what a handler may return for (param, acc): NewcapecHandler by its code, any
\* other handler whether it matched and the accumulated result, kept or replaced
\* by one of its own
HandlerReturns(e, param, acc) ==
    IF e.handler = "newcapec"
    THEN {NewcapecHandler_hook(param, acc)}
    ELSE BOOLEAN \X {acc, Some(e.id)}

NoChain == [state |-> "idle", type |-> "", todo |-> <<>>, acc |-> None, matched |-> FALSE,
            inflight |-> {}, calls |-> <<>>, result |-> <<>>]

\* variant of the chain step that passes every handler the absent result
NextAcc_Forgets(acc, returned) == None

\* the accumulated result handed to the next handler of the chain
NextAcc(acc, returned) == returned

\* the outcome of a dispatch: the final accumulated result, none if no handler
\* matched, and the combined matched flag
DispatchResult(acc, matched) == <<IF matched THEN acc ELSE None, matched>>

\* NewcapecPlugin::init: one NewcapecHandler for ClientConnack and one for
\* ClientConnect, both with priority 0
NewcapecInit ==
    /\ nextHandler + 1 <= MaxHandlers
    /\ hooks' = [hooks EXCEPT
                   !["ClientConnack"] =
                       add_priority(@, HandlerEntry(0, nextHandler, "newcapec")),
                   !["ClientConnect"] =
                       add_priority(@, HandlerEntry(0, nextHandler + 1, "newcapec"))]
    /\ nextHandler' = nextHandler + 2
    /\ UNCHANGED <<chain, nonHookVars>>

\* register.add_priority(type, priority, handler) by any other module
AddPriority ==
    /\ nextHandler <= MaxHandlers
    /\ \E type \in Types, priority \in Priorities :
          hooks' = [hooks EXCEPT ![type] =
                       add_priority(@, HandlerEntry(priority, nextHandler, "other"))]
    /\ nextHandler' = nextHandler + 1
    /\ UNCHANGED <<chain, nonHookVars>>

\* dispatch(type, param) begins: the chain takes the entries of the kind
Dispatch ==
    /\ chain.state \in {"idle", "done"}
    /\ \E type \in Types :
          chain' = [NoChain EXCEPT !.state = "walking", !.type = type, !.todo = hooks[type]]
    /\ UNCHANGED <<hooks, nextHandler, nonHookVars>>

\* the chain may invoke its next handler: none of its handlers is running
MayInvoke(c) == c.state = "walking" /\ c.todo # <<>> /\ c.inflight = {}

\* the chain invokes its next handler, which may suspend
Invoke ==
    /\ MayInvoke(chain)
    /\ chain' = [chain EXCEPT
                   !.todo = Tail(@),
                   !.inflight = @ \cup {Head(chain.todo).id},
                   !.calls = Append(@, [id |-> Head(chain.todo).id,
                                        priority |-> Head(chain.todo).priority,
                                        handler |-> Head(chain.todo).handler,
                                        given |-> chain.acc,
                                        returned |-> None, matched |-> FALSE,
                                        pending |-> TRUE])]
    /\ UNCHANGED <<hooks, nextHandler, nonHookVars>>

\* a running handler returns (matched, accumulated result)
HandlerReturn ==
    /\ chain.state = "walking"
    /\ \E i \in 1..Len(chain.calls) :
          /\ chain.calls[i].pending
          /\ \E ret \in HandlerReturns(chain.calls[i], chain.type, chain.calls[i].given) :
                chain' = [chain EXCEPT
                            !.inflight = @ \ {chain.calls[i].id},
                            !.acc = NextAcc(@, ret[2]),
                            !.matched = @ \/ ret[1],
                            !.calls[i].returned = ret[2],
                            !.calls[i].matched = ret[1],
                            !.calls[i].pending = FALSE]
    /\ UNCHANGED <<hooks, nextHandler, nonHookVars>>

\* the chain is through: dispatch returns
DispatchReturn ==
    /\ chain.state = "walking" /\ chain.todo = <<>> /\ chain.inflight = {}
    /\ chain' = [chain EXCEPT !.state = "done",
                              !.result = DispatchResult(chain.acc, chain.matched)]
    /\ UNCHANGED <<hooks, nextHandler, nonHookVars>>

(***************************************************************************)
(* The Manager under concurrent tasks.  Manager::plugins is a DashMap: its *)
(* keys are spread over shards, each behind one read-write lock.  get and  *)
(* get_mut return a guard that holds the shard's lock until it is dropped, *)
(* here at the end of the call, so across the awaited Plugin callback;     *)
(* remove and insert hold the write lock for the operation only.  Each     *)
(* call is split at its lock acquisitions and at its awaits.               *)
(***************************************************************************)
Tasks == {"t1", "t2"}

Shards == {"s1", "s2"}

\* worker threads of the executor the tasks are polled on
WorkerCounts == {1, 2}

\* Manager calls that take the entry with get_mut, and those that take it with get
MutOps == {"start", "stop", "load_config"}
RefOps == {"get_config", "send"}
ConcOps == MutOps \cup RefOps \cup {"is_active", "register"}

Unlocked == [writer |-> "none", readers |-> {}]

\* old: the plugin of the entry register removed; waiting: the task sits on a
\* worker thread inside a DashMap call, waiting for the shard's lock
IdleTask == [pc |-> "idle", op |-> "", name |-> "", inst |-> 0, startup |-> FALSE,
             old |-> 0, waiting |-> FALSE]

\* RwLock: a shared lock waits for the writer
CanRead(shard) == locks[shard].writer = "none"

\* RwLock: an exclusive lock waits for the writer and for every reader
CanWrite(shard) == locks[shard].writer = "none" /\ locks[shard].readers = {}

LockWrite(t, shard) == [locks EXCEPT ![shard].writer = t]
LockRead(t, shard) == [locks EXCEPT ![shard].readers = @ \cup {t}]
\* dropping the guard (Ref or RefMut) at the end of the call
Unlock(t, shard) ==
    [locks EXCEPT ![shard].writer = IF @ = t THEN "none" ELSE @,
                  ![shard].readers = @ \ {t}]

\* the lock the DashMap call of task u needs is free for it
CanProceed(u) ==
    IF tasks[u].op \in RefOps \cup {"is_active"}
    THEN CanRead(shardOf[tasks[u].name])
    ELSE CanWrite(shardOf[tasks[u].name])

\* a worker thread is free: the DashMap lock is not awaited but waited for on the
\* thread, so a task waiting for a lock keeps its worker
FreeWorker == Cardinality({t \in Tasks : tasks[t].waiting}) < workers

\* task t is on a worker thread or can be polled on one
Runs(t) == tasks[t].waiting \/ FreeWorker

\* the call of task t returns
Return(t) == tasks' = [tasks EXCEPT ![t] = IdleTask]

Goto(t, pc) == tasks' = [tasks EXCEPT ![t].pc = pc, ![t].waiting = FALSE]

Running(name, inst) == [name |-> name, inst |-> inst]

\* a task calls the Manager; register brings a new Box<dyn Plugin>
ConcCall ==
    \E t \in Tasks, op \in ConcOps, name \in Names, default_startup \in BOOLEAN :
       /\ tasks[t].pc = "idle"
       /\ op = "register" => nextInst <= MaxRegisters
       /\ op # "register" => ~default_startup
       /\ tasks' = [tasks EXCEPT ![t] =
                      [IdleTask EXCEPT !.pc = "acquire", !.op = op, !.name = name,
                                       !.inst = IF op = "register" THEN nextInst ELSE 0,
                                       !.startup = default_startup]]
       /\ nextInst' = IF op = "register" THEN nextInst + 1 ELSE nextInst
       /\ UNCHANGED <<plugins, shardOf, locks, running, workers, nonConcVars>>

\* a task polled on a worker thread reaches a DashMap call whose lock is taken:
\* it waits on the thread
Block ==
    \E t \in Tasks :
       /\ tasks[t].pc \in {"acquire", "insert"}
       /\ ~tasks[t].waiting /\ FreeWorker
       /\ ~CanProceed(t)
       /\ tasks' = [tasks EXCEPT ![t].waiting = TRUE]
       /\ UNCHANGED <<plugins, nextInst, shardOf, locks, running, workers, nonConcVars>>

\* start / stop / load_config: self.get_mut(name), then the tests before the first await
AcquireMut ==
    \E t \in Tasks :
       LET c == tasks[t]
           shard == shardOf[c.name]
       IN  /\ c.pc = "acquire" /\ c.op \in MutOps
           /\ Runs(t) /\ CanWrite(shard)
           /\ IF c.name \notin DOMAIN plugins
              THEN Return(t) /\ UNCHANGED locks
              ELSE LET e == plugins[c.name]
                       pc == CASE c.op = "start" /\ ~e.inited -> "init"
                               [] c.op = "start" /\ e.inited /\ ~e.active -> "start"
                               [] c.op = "stop" /\ e.active -> "stop"
                               [] c.op = "load_config" -> "load_config"
                               [] OTHER -> "idle"
                   IN  IF pc = "idle"
                       THEN Return(t) /\ UNCHANGED locks
                       ELSE Goto(t, pc) /\ locks' = LockWrite(t, shard)
           /\ UNCHANGED <<plugins, nextInst, shardOf, running, workers, nonConcVars>>

\* get_config / send: self.get(name), then the callback is awaited
AcquireRef ==
    \E t \in Tasks :
       LET c == tasks[t]
           shard == shardOf[c.name]
       IN  /\ c.pc = "acquire" /\ c.op \in RefOps
           /\ Runs(t) /\ CanRead(shard)
           /\ IF c.name \notin DOMAIN plugins
              THEN Return(t) /\ UNCHANGED locks
              ELSE Goto(t, c.op) /\ locks' = LockRead(t, shard)
           /\ UNCHANGED <<plugins, nextInst, shardOf, running, workers, nonConcVars>>

\* is_active: self.plugins.get(name), entry.active(), the guard dropped at once
ConcIsActive ==
    \E t \in Tasks :
       /\ tasks[t].pc = "acquire" /\ tasks[t].op = "is_active"
       /\ Runs(t) /\ CanRead(shardOf[tasks[t].name])
       /\ Return(t)
       /\ UNCHANGED <<plugins, nextInst, shardOf, locks, running, workers, nonConcVars>>

\* start: entry.plugin.init().await? returns; inited is left as it was
InitReturn ==
    \E t \in Tasks, res \in UnitResults :
       /\ tasks[t].pc = "init" /\ FreeWorker
       /\ IF res = "Err"
          THEN Return(t) /\ locks' = Unlock(t, shardOf[tasks[t].name])
          ELSE IF ~plugins[tasks[t].name].active
               THEN Goto(t, "start") /\ UNCHANGED locks
               ELSE Return(t) /\ locks' = Unlock(t, shardOf[tasks[t].name])
       /\ UNCHANGED <<plugins, nextInst, shardOf, running, workers, nonConcVars>>

\* start: entry.plugin.start().await? returns; entry.active = true
StartReturn ==
    \E t \in Tasks, res \in UnitResults :
       LET name == tasks[t].name
       IN  /\ tasks[t].pc = "start" /\ FreeWorker
           /\ plugins' = IF res = "Ok" THEN [plugins EXCEPT ![name].active = TRUE]
                         ELSE plugins
           /\ running' = IF res = "Ok"
                         THEN running \cup {Running(name, plugins[name].plugin)}
                         ELSE running
           /\ Return(t)
           /\ locks' = Unlock(t, shardOf[name])
           /\ UNCHANGED <<nextInst, shardOf, workers, nonConcVars>>

\* stop: entry.plugin.stop().await? returns; entry.active = !stopped
StopReturn ==
    \E t \in Tasks, res \in StopResults :
       LET name == tasks[t].name
       IN  /\ tasks[t].pc = "stop" /\ FreeWorker
           /\ plugins' = IF res = "Err" THEN plugins
                         ELSE [plugins EXCEPT ![name].active = (res # "OkTrue")]
           /\ running' = IF res = "OkTrue"
                         THEN running \ {Running(name, plugins[name].plugin)}
                         ELSE running
           /\ Return(t)
           /\ locks' = Unlock(t, shardOf[name])
           /\ UNCHANGED <<nextInst, shardOf, workers, nonConcVars>>

\* load_config / get_config / send: the awaited callback returns
ForwardReturn ==
    \E t \in Tasks :
       /\ tasks[t].pc \in {"load_config", "get_config", "send"} /\ FreeWorker
       /\ Return(t)
       /\ locks' = Unlock(t, shardOf[tasks[t].name])
       /\ UNCHANGED <<plugins, nextInst, shardOf, running, workers, nonConcVars>>

\* register: self.plugins.remove(plugin.name()), then the tests before the first await
RegisterRemove ==
    \E t \in Tasks :
       LET c == tasks[t]
           had == c.name \in DOMAIN plugins
       IN  /\ c.pc = "acquire" /\ c.op = "register"
           /\ Runs(t) /\ CanWrite(shardOf[c.name])
           /\ plugins' = MapRemove(plugins, c.name)
           /\ tasks' = [tasks EXCEPT
                          ![t].waiting = FALSE,
                          ![t].old = IF had THEN plugins[c.name].plugin ELSE 0,
                          ![t].pc = IF had /\ plugins[c.name].active THEN "old_stop"
                                    ELSE IF c.startup THEN "new_init" ELSE "insert"]
           /\ UNCHANGED <<nextInst, shardOf, locks, running, workers, nonConcVars>>

\* register: entry.plugin.stop().await? of the removed entry returns; the value
\* of Ok(_) is not looked at
RegisterStopReturn ==
    \E t \in Tasks, res \in StopResults :
       /\ tasks[t].pc = "old_stop" /\ FreeWorker
       /\ running' = IF res = "OkTrue"
                     THEN running \ {Running(tasks[t].name, tasks[t].old)}
                     ELSE running
       /\ IF res = "Err"
          THEN Return(t)
          ELSE Goto(t, IF tasks[t].startup THEN "new_init" ELSE "insert")
       /\ UNCHANGED <<plugins, nextInst, shardOf, locks, workers, nonConcVars>>

\* register: plugin.init().await? and plugin.start().await? of the new plugin return
RegisterAwait ==
    \E t \in Tasks, res \in UnitResults :
       /\ tasks[t].pc \in {"new_init", "new_start"} /\ FreeWorker
       /\ running' = IF tasks[t].pc = "new_start" /\ res = "Ok"
                     THEN running \cup {Running(tasks[t].name, tasks[t].inst)}
                     ELSE running
       /\ IF res = "Err"
          THEN Return(t)
          ELSE Goto(t, IF tasks[t].pc = "new_init" THEN "new_start" ELSE "insert")
       /\ UNCHANGED <<plugins, nextInst, shardOf, locks, workers, nonConcVars>>

\* register: self.plugins.insert(name, Entry { inited, active, plugin })
RegisterInsert ==
    \E t \in Tasks :
       LET c == tasks[t]
       IN  /\ c.pc = "insert"
           /\ Runs(t) /\ CanWrite(shardOf[c.name])
           /\ plugins' = MapInsert(plugins, c.name, Entry(c.startup, c.startup, c.inst))
           /\ Return(t)
           /\ UNCHANGED <<nextInst, shardOf, locks, running, workers, nonConcVars>>

(***************************************************************************)
(* Id (broker/types.rs): the identity of a connection                      *)
(***************************************************************************)
\* strings are sequences of characters
Strs == {<<>>, <<"a">>, <<"/">>}

NodeIds == {0, 1}

UserNames == {None, Some(<<"u">>), Some(<<"a">>)}

IdArgs == NodeIds \X Strs \X Strs \X Strs \X UserNames

\* Display of a NodeId (u64)
Digits(n) == IF n = 0 THEN <<"0">> ELSE <<"1">>

\* format!("{}@{}/{}/{}", node_id, local_addr, remote_addr, client_id)
IdFormat(node_id, local_addr, remote_addr, client_id) ==
    Digits(node_id) \o <<"@">> \o local_addr \o <<"/">> \o remote_addr \o <<"/">> \o client_id

\* Id::new(node_id, local_addr, remote_addr, client_id, username)
Id_new(node_id, local_addr, remote_addr, client_id, username) ==
    [id |-> IdFormat(node_id, local_addr, remote_addr, client_id),
     node_id |-> node_id, local_addr |-> local_addr, remote_addr |-> remote_addr,
     client_id |-> client_id,
     username |-> IF username = None THEN <<"u", "n", "d", "e", "f", "i", "n", "e", "d">>
                  ELSE username[1]]

\* variant of eq that compares the user names as well
Id_eq_WithUsername(self, other) == self.id = other.id /\ self.username = other.username

\* impl PartialEq for Id: self.id == other.id
Id_eq(self, other) == self.id = other.id

\* the byte a character is written as
Byte(c) ==
    CASE c = "0" -> 48 [] c = "1" -> 49 [] c = "@" -> 64 [] c = "/" -> 47 [] OTHER -> 97

\* Hasher: the bytes written to it, folded into 16 bits
RECURSIVE HashBytes(_, _)
HashBytes(state, bytes) ==
    IF bytes = <<>> THEN state
    ELSE HashBytes((state * 31 + Byte(Head(bytes))) % 65536, Tail(bytes))

\* impl Hash for Id: self.id.hash(state)
Id_hash(self, state) == HashBytes(state, self.id)

NoId == [id |-> <<>>, node_id |-> 0, local_addr |-> <<>>, remote_addr |-> <<>>,
         client_id |-> <<>>, username |-> <<>>]

NoIdCall == [op |-> "idle", args |-> <<>>, a |-> NoId, b |-> NoId,
             eq |-> FALSE, ha |-> 0, hb |-> 0]

\* Id::new for both argument lists
IdNew ==
    /\ idcall.op = "args"
    /\ idcall' = [idcall EXCEPT
                    !.op = "new",
                    !.a = Id_new(idcall.args[1][1], idcall.args[1][2], idcall.args[1][3],
                                 idcall.args[1][4], idcall.args[1][5]),
                    !.b = Id_new(idcall.args[2][1], idcall.args[2][2], idcall.args[2][3],
                                 idcall.args[2][4], idcall.args[2][5])]
    /\ UNCHANGED <<hcall, pub, pubcall, nonPureVars>>

\* a == b
IdEq ==
    /\ idcall.op = "new"
    /\ idcall' = [idcall EXCEPT !.op = "eq", !.eq = Id_eq(idcall.a, idcall.b)]
    /\ UNCHANGED <<hcall, pub, pubcall, nonPureVars>>

\* a.hash(state), b.hash(state) with hashers in the same state
IdHash ==
    /\ idcall.op = "new"
    /\ idcall' = [idcall EXCEPT !.op = "hash",
                                !.ha = Id_hash(idcall.a, 0),
                                !.hb = Id_hash(idcall.b, 0)]
    /\ UNCHANGED <<hcall, pub, pubcall, nonPureVars>>

\* hook::Parameter: its variant and the connection it carries
ParameterVariants == Types \cup {"ClientDisconnected", "MessagePublish"}

Parameters == [variant : ParameterVariants, conn_info : {"c1", "c2", "c3"}]

\* Option<HookResult>
HookResults == {None} \cup {Some(x) : x \in {"r1", "r2", "r3", "r4"}}

NoHookCall == [op |-> "idle", param |-> [variant |-> "", conn_info |-> ""],
               acc |-> None, ret |-> <<>>]

\* handler.hook(&param, acc) on a NewcapecHandler
NewcapecHook ==
    /\ hcall.op = "args"
    /\ hcall' = [hcall EXCEPT !.op = "hook",
                              !.ret = NewcapecHandler_hook(hcall.param.variant, hcall.acc)]
    /\ UNCHANGED <<idcall, pub, pubcall, nonPureVars>>

(***************************************************************************)
(* Publish (broker/types.rs)                                               *)
(***************************************************************************)
\* PacketId = u16; the values the checks draw
PacketIds == {0, 1, 2, 65535}

\* Publish::V3 / Publish::V5: the fields of the wrapped packet the accessors read;
\* packet_id is an Option<NonZeroU16>
Publishes ==
    [variant : {"V3", "V5"}, payload : {<<>>, <<"x">>}, topic : {<<"a">>, <<"a", "b">>},
     qos : QoS, dup : BOOLEAN, retain : BOOLEAN,
     packet_id : {None} \cup {Some(n) : n \in PacketIds \ {0}}]

\* NonZeroU16::new(n)
NonZeroU16_new(n) == IF n % 65536 = 0 THEN None ELSE Some(n % 65536)

\* Publish::packet_id() -> Option<PacketId>
Publish_packet_id(self) == IF self.packet_id = None THEN None ELSE Some(self.packet_id[1])

\* Publish::packet_id_is_none()
Publish_packet_id_is_none(self) == self.packet_id = None

\* variant of set_packet_id that leaves the id alone when given 0
Publish_set_packet_id_KeepsOnZero(self, packet_id) ==
    IF packet_id = 0 THEN self ELSE [self EXCEPT !.packet_id = NonZeroU16_new(packet_id)]

\* Publish::set_packet_id(packet_id)
Publish_set_packet_id(self, packet_id) == [self EXCEPT !.packet_id = NonZeroU16_new(packet_id)]

NoPublish == [variant |-> "V3", payload |-> <<>>, topic |-> <<>>, qos |-> "AtMostOnce",
              dup |-> FALSE, retain |-> FALSE, packet_id |-> None]

NoPubCall == [op |-> "idle", before |-> NoPublish, arg |-> 0, read |-> {},
              packet_id |-> None, is_none |-> FALSE]

\* publish.set_packet_id(packet_id)
SetPacketId ==
    /\ pubcall.op = "new"
    /\ \E packet_id \in PacketIds :
          /\ pub' = Publish_set_packet_id(pub, packet_id)
          /\ pubcall' = [pubcall EXCEPT !.op = "set_packet_id", !.before = pub,
                                        !.arg = packet_id]
    /\ UNCHANGED <<idcall, hcall, nonPureVars>>

\* publish.packet_id() after the set_packet_id
PacketId ==
    /\ pubcall.op = "set_packet_id" /\ "packet_id" \notin pubcall.read
    /\ pubcall' = [pubcall EXCEPT !.read = @ \cup {"packet_id"},
                                  !.packet_id = Publish_packet_id(pub)]
    /\ UNCHANGED <<pub, idcall, hcall, nonPureVars>>

\* publish.packet_id_is_none() after the set_packet_id
PacketIdIsNone ==
    /\ pubcall.op = "set_packet_id" /\ "is_none" \notin pubcall.read
    /\ pubcall' = [pubcall EXCEPT !.read = @ \cup {"is_none"},
                                  !.is_none = Publish_packet_id_is_none(pub)]
    /\ UNCHANGED <<pub, idcall, hcall, nonPureVars>>

(***************************************************************************)
(* Actions of the Manager                                                  *)
(***************************************************************************)
\* the plugins whose init callback a call invoked
InitsIn(trace) == {trace[i].inst : i \in {j \in 1..Len(trace) : trace[j].ev = "init"}}

Call(op, name, startup, inst, out) ==
    /\ before' = plugins
    /\ inits' = [called |-> inits.called \cup InitsIn(out.trace),
                 again  |-> inits.again \cup (inits.called \cap InitsIn(out.trace))]
    /\ plugins' = out.plugins
    /\ last' = [op |-> op, name |-> name, startup |-> startup, inst |-> inst,
                result |-> out.result, trace |-> out.trace]

NoCall == [op |-> "none", name |-> "", startup |-> FALSE, inst |-> 0,
           result |-> "", trace |-> <<>>]

Register ==
    /\ nextInst <= MaxInstances
    /\ \E name \in Names, default_startup \in BOOLEAN,
          stopRes \in StopResults, initRes \in UnitResults, startRes \in UnitResults :
          Call("register", name, default_startup, nextInst,
               register(plugins, nextInst, name, default_startup, stopRes, initRes, startRes))
    /\ nextInst' = nextInst + 1
    /\ UNCHANGED nonMgrVars

Start ==
    /\ \E name \in Names, initRes \in UnitResults, startRes \in UnitResults :
          Call("start", name, FALSE, 0, start(plugins, name, initRes, startRes))
    /\ UNCHANGED <<nextInst, nonMgrVars>>

Stop ==
    /\ \E name \in Names, stopRes \in StopResults :
          Call("stop", name, FALSE, 0, stop(plugins, name, stopRes))
    /\ UNCHANGED <<nextInst, nonMgrVars>>

GetConfig ==
    /\ \E name \in Names, res \in UnitResults :
          Call("get_config", name, FALSE, 0, get_config(plugins, name, res))
    /\ UNCHANGED <<nextInst, nonMgrVars>>

LoadConfig ==
    /\ \E name \in Names, res \in UnitResults :
          Call("load_config", name, FALSE, 0, load_config(plugins, name, res))
    /\ UNCHANGED <<nextInst, nonMgrVars>>

Send ==
    /\ \E name \in Names, res \in UnitResults :
          Call("send", name, FALSE, 0, send(plugins, name, res))
    /\ UNCHANGED <<nextInst, nonMgrVars>>

IsActive ==
    /\ \E name \in Names :
          Call("is_active", name, FALSE, 0,
               Outcome(plugins, IF is_active(plugins, name) THEN "true" ELSE "false", <<>>))
    /\ UNCHANGED <<nextInst, nonMgrVars>>

\* Manager::new()
MgrInit ==
    /\ plugins = <<>>
    /\ nextInst = 1
    /\ last = NoCall
    /\ before = <<>>
    /\ inits = [called |-> {}, again |-> {}]

AckIdle ==
    /\ ack = AckV3(<<>>)
    /\ mcall = NoMerge

FnIdle == fcall = NoFn

SubIdle ==
    /\ sub = SubscribeV3(<<>>)
    /\ unsub = UnsubscribeV3(<<>>)
    /\ scall = NoSubCall("")

\* no identity, no handler call, no Publish
IdIdle == idcall = NoIdCall

HookCallIdle == hcall = NoHookCall

PubIdle == pub = NoPublish /\ pubcall = NoPubCall

PureIdle == IdIdle /\ HookCallIdle /\ PubIdle

\* no task is calling the Manager
ConcIdle ==
    /\ shardOf = [n \in Names |-> "s1"]
    /\ locks = [sh \in Shards |-> Unlocked]
    /\ tasks = [t \in Tasks |-> IdleTask]
    /\ running = {}
    /\ workers = 1

\* an empty hook registry
HookInit ==
    /\ hooks = [t \in Types |-> <<>>]
    /\ nextHandler = 1
    /\ chain = NoChain

Init == MgrInit /\ AckIdle /\ FnIdle /\ SubIdle /\ HookInit /\ ConcIdle /\ PureIdle

Next == Register \/ Start \/ Stop \/ GetConfig \/ LoadConfig \/ Send \/ IsActive

Spec == Init /\ [][Next]_vars

\* an acknowledgement under construction, about to be merged with others
InitAck ==
    /\ MgrInit /\ FnIdle /\ SubIdle /\ HookInit /\ ConcIdle /\ PureIdle
    /\ ack \in Acks
    /\ mcall = NoMerge

NextAck == MergeFrom

SpecAck == InitAck /\ [][NextAck]_vars

\* a pair of arguments for one of the merge functions
InitFn ==
    /\ MgrInit /\ AckIdle /\ SubIdle /\ HookInit /\ ConcIdle /\ PureIdle
    /\ fcall \in {FnCall("less_value", a, b) : a \in QoS, b \in QoS}
              \cup {FnCall("v3_merge", a, b) : a \in ReturnCodesV3, b \in ReturnCodesV3}
              \cup {FnCall("v5_merge", a, b) : a \in SubscribeAckReasons, b \in SubscribeAckReasons}

NextFn == LessValue \/ V3Merge \/ V5Merge

SpecFn == InitFn /\ [][NextFn]_vars

\* a Subscribe or an Unsubscribe packet received from a client
InitSub ==
    /\ MgrInit /\ AckIdle /\ FnIdle /\ HookInit /\ ConcIdle /\ PureIdle
    /\ \/ sub \in Subscribes /\ unsub = UnsubscribeV3(<<>>) /\ scall = NoSubCall("Subscribe")
       \/ sub = SubscribeV3(<<>>) /\ unsub \in Unsubscribes /\ scall = NoSubCall("Unsubscribe")

NextSub ==
    \/ SubscribeAdjust \/ UnsubscribeAdjust
    \/ SubscribeTopicFilter \/ SubscribeRemove \/ SubscribeSetQosIfLess

SpecSub == InitSub /\ [][NextSub]_vars

InitHook == MgrInit /\ AckIdle /\ FnIdle /\ SubIdle /\ HookInit /\ ConcIdle /\ PureIdle

NextHook ==
    NewcapecInit \/ AddPriority \/ Dispatch \/ Invoke \/ HandlerReturn \/ DispatchReturn

SpecHook == InitHook /\ [][NextHook]_vars

\* an empty directory; the hasher decides which shard each name falls in
InitConc ==
    /\ MgrInit /\ AckIdle /\ FnIdle /\ SubIdle /\ HookInit /\ PureIdle
    /\ shardOf \in [Names -> Shards]
    /\ locks = [sh \in Shards |-> Unlocked]
    /\ tasks = [t \in Tasks |-> IdleTask]
    /\ running = {}
    /\ workers \in WorkerCounts

NextConc ==
    \/ ConcCall \/ Block \/ AcquireMut \/ AcquireRef \/ ConcIsActive
    \/ InitReturn \/ StartReturn \/ StopReturn \/ ForwardReturn
    \/ RegisterRemove \/ RegisterStopReturn \/ RegisterAwait \/ RegisterInsert

SpecConc == InitConc /\ [][NextConc]_vars

\* two argument lists of Id::new
InitId ==
    /\ MgrInit /\ AckIdle /\ FnIdle /\ SubIdle /\ HookInit /\ ConcIdle
    /\ HookCallIdle /\ PubIdle
    /\ \E x \in IdArgs, y \in IdArgs : idcall = [NoIdCall EXCEPT !.op = "args", !.args = <<x, y>>]

NextId == IdNew \/ IdEq \/ IdHash

SpecId == InitId /\ [][NextId]_vars

\* a Parameter and a prior accumulated result
InitHookCall ==
    /\ MgrInit /\ AckIdle /\ FnIdle /\ SubIdle /\ HookInit /\ ConcIdle
    /\ IdIdle /\ PubIdle
    /\ \E param \in Parameters, acc \in HookResults :
          hcall = [NoHookCall EXCEPT !.op = "args", !.param = param, !.acc = acc]

NextHookCall == NewcapecHook

SpecHookCall == InitHookCall /\ [][NextHookCall]_vars

\* a Publish
InitPub ==
    /\ MgrInit /\ AckIdle /\ FnIdle /\ SubIdle /\ HookInit /\ ConcIdle
    /\ IdIdle /\ HookCallIdle
    /\ pub \in Publishes
    /\ pubcall = [NoPubCall EXCEPT !.op = "new"]

NextPub == SetPacketId \/ PacketId \/ PacketIdIsNone

SpecPub == InitPub /\ [][NextPub]_vars

(***************************************************************************)
(* Properties of the plugin Manager, checked under Spec                    *)
(***************************************************************************)
\* the callbacks and directory updates of the last call that concern instance p
EventsOf(p) == SelectSeq(last.trace, LAMBDA e : e.inst = p)

EventNames(tr) == [i \in 1..Len(tr) |-> tr[i].ev]

Callbacks == {"init", "start", "stop", "get_config", "load_config", "send"}

\* the last call invoked no Plugin callback at all
NoCallback == \A i \in 1..Len(last.trace) : last.trace[i].ev \notin Callbacks

LastOn(op) == last.op = op /\ last.name \in DOMAIN before

\* C1: after a successful register(p, false) is_active(p) is false; after a
\* successful start(p) is_active(p) is true; and a module that is active stays
\* active across every call other than a stop(p) reporting did_stop = true or a
\* register of p.
C1_RegisterStartActive ==
    /\ (last.op = "register" /\ last.result = "Ok" /\ ~last.startup)
           => ~is_active(plugins, last.name)
    /\ (last.op = "start" /\ last.result = "Ok") => is_active(plugins, last.name)
    /\ \A p \in Names :
           (/\ is_active(before, p)
            /\ ~(last.op = "stop" /\ last.name = p /\ last.result = "OkTrue")
            /\ ~(last.op = "register" /\ last.name = p))
           => is_active(plugins, p)

\* a module registered inert and started by start(p) has just survived a stop(p)
\* that reported did_stop = false
C1_Witness ==
    /\ LastOn("stop") /\ last.result = "OkFalse"
    /\ ~before[last.name].inited
    /\ is_active(plugins, last.name)

\* C2: every directory entry that is active is also inited.
C2_ActiveImpliesInited ==
    \A n \in DOMAIN plugins : plugins[n].active => plugins[n].inited

\* C3: stop(name) on an entry that exists and is not active returns NotActive,
\* invokes no callback and leaves the whole directory as it was.
C3_StopInactive ==
    (LastOn("stop") /\ ~before[last.name].active)
        => /\ last.result = "NotActive"
           /\ NoCallback
           /\ plugins = before

\* stop of a module that was started and stopped before, while another module is active
C3_Witness ==
    /\ LastOn("stop") /\ ~before[last.name].active
    /\ before[last.name].inited
    /\ \E n \in DOMAIN plugins : plugins[n].active

\* C4: for a name with no entry, start, stop, get_config, load_config and send
\* return NotFound, invoke no callback and leave the directory unchanged;
\* is_active returns false and changes nothing.
C4_UnknownName ==
    (last.op # "none" /\ last.op # "register" /\ last.name \notin DOMAIN before)
        => /\ NoCallback
           /\ plugins = before
           /\ last.result = IF last.op = "is_active" THEN "false" ELSE "NotFound"

\* a call on an unknown name while another module is registered and active
C4_Witness ==
    /\ last.op \in {"start", "stop", "get_config", "load_config", "send"}
    /\ last.name \notin DOMAIN before
    /\ \E n \in DOMAIN before : before[n].active

\* C5: start(name) on an active module returns Ok, invokes neither init nor
\* start, and leaves the directory unchanged.
C5_StartActiveNoOp ==
    (LastOn("start") /\ before[last.name].active)
        => /\ last.result = "Ok"
           /\ NoCallback
           /\ plugins = before

\* C6: stop(name) on an active module invokes the module's stop exactly once
\* and nothing else, returns what it returned, and leaves the entry inactive
\* iff it returned did_stop = true (active on did_stop = false and on an error);
\* nothing else in the directory changes.
C6_StopActive ==
    (LastOn("stop") /\ before[last.name].active)
        => /\ Len(last.trace) = 1
           /\ last.trace[1].ev = "stop"
           /\ last.trace[1].inst = before[last.name].plugin
           /\ last.result = last.trace[1].ret
           /\ plugins = [before EXCEPT ![last.name].active = (last.result # "OkTrue")]

\* a stop whose module reported an error, the entry staying active
C6_Witness ==
    /\ LastOn("stop") /\ before[last.name].active
    /\ last.result = "Err"
    /\ plugins[last.name].active

\* C7: a successful register(module, true) invoked the module's init, then its
\* start, once each, then inserted the entry, which is inited and active; a
\* register(module, false) invokes neither callback of the module and, when it
\* succeeds, stores the entry neither inited nor active.
C7_RegisterStartup ==
    last.op = "register" =>
        /\ (last.startup /\ last.result = "Ok")
              => /\ EventNames(EventsOf(last.inst)) = <<"init", "start", "insert">>
                 /\ plugins[last.name] = Entry(TRUE, TRUE, last.inst)
        /\ (~last.startup)
              => /\ \A i \in 1..Len(last.trace) :
                        last.trace[i].inst = last.inst => last.trace[i].ev = "insert"
                 /\ last.result = "Ok" => plugins[last.name] = Entry(FALSE, FALSE, last.inst)

\* a successful register with default_startup = true of a name not registered before
C7_Witness ==
    /\ last.op = "register" /\ last.startup /\ last.result = "Ok"
    /\ last.name \notin DOMAIN before
    /\ plugins[last.name].active

\* C8: register of a name that is already in the directory removes the old
\* entry and, the old module being active, invokes its stop once, before any
\* init or start of the new module; an error of that stop is the result of
\* register; after a successful register the name maps to the new module and
\* the old module is in no entry.
C8_RegisterReplaces ==
    LastOn("register") =>
        LET old   == before[last.name]
            stops == {i \in 1..Len(last.trace) :
                         last.trace[i].ev = "stop" /\ last.trace[i].inst = old.plugin}
            news  == {i \in 1..Len(last.trace) :
                         last.trace[i].inst = last.inst}
        IN  /\ Cardinality(stops) = IF old.active THEN 1 ELSE 0
            /\ \A i \in stops, j \in news : i < j
            /\ \A i \in stops : last.trace[i].ret = "Err" => last.result = "Err"
            /\ last.result = "Ok"
                  => /\ last.name \in DOMAIN plugins
                     /\ plugins[last.name].plugin = last.inst
                     /\ \A n \in DOMAIN plugins : plugins[n].plugin # old.plugin

\* a successful register with default_startup = true over an active module
C8_Witness ==
    /\ LastOn("register") /\ before[last.name].active
    /\ last.startup /\ last.result = "Ok"

(***************************************************************************)
(* Properties of SubscribeAck::merge_from, checked under SpecAck           *)
(***************************************************************************)
\* the last merge_from call got two acknowledgements of one variant and one length
SameShape ==
    /\ mcall.outcome # "none"
    /\ mcall.before.variant = mcall.merged.variant
    /\ Len(mcall.before.status) = Len(mcall.merged.status)

\* the element merge of the variant
Merge(variant, a, b) == IF variant = "V3" THEN v3_merge(a, b) ELSE v5_merge(a, b)

\* C9: merge_from on two acknowledgements of the same variant and the same
\* length N returns normally, keeps the length N, and leaves at every index i
\* the merge of the receiver's old element i with the argument's element i.
C9_MergeElementwise ==
    SameShape =>
        /\ mcall.outcome = "ok"
        /\ Len(ack.status) = Len(mcall.before.status)
        /\ \A i \in 1..Len(ack.status) :
               ack.status[i] = Merge(ack.variant, mcall.before.status[i], mcall.merged.status[i])

(***************************************************************************)
(* Properties of the merge functions, checked under SpecFn                 *)
(***************************************************************************)
Applied(fn) == fcall.fn = fn /\ fcall.r # Pending

\* C10: when exactly one argument of v5_merge is outside the granted set, the
\* result is that argument, whether it is the first or the second.
C10_RefusalWins ==
    Applied("v5_merge") =>
        /\ (fcall.a \notin GrantedReasons /\ fcall.b \in GrantedReasons) => fcall.r = fcall.a
        /\ (fcall.a \in GrantedReasons /\ fcall.b \notin GrantedReasons) => fcall.r = fcall.b

\* the QoS level of a numeric value, and the smaller of two numbers
LevelOf(n) == CHOOSE q \in QoS : value(q) = n

Smaller(x, y) == IF x <= y THEN x ELSE y

\* C11: v3_merge(a, b) is Failure when a or b is Failure, in either position,
\* and otherwise Success at the numerically lower of the two granted QoS
\* values; swapping the arguments gives the same result.
C11_V3Merge ==
    Applied("v3_merge") =>
        /\ fcall.r = IF fcall.a = Failure \/ fcall.b = Failure
                     THEN Failure
                     ELSE Success(LevelOf(Smaller(value(GrantedQoS(fcall.a)),
                                                  value(GrantedQoS(fcall.b)))))
        /\ v3_merge(fcall.b, fcall.a) = fcall.r

\* the receiver granted more than the merged acknowledgement
C11_Witness ==
    /\ Applied("v3_merge")
    /\ fcall.a = Success("ExactlyOnce") /\ fcall.b = Success("AtLeastOnce")
    /\ fcall.r = Success("AtLeastOnce")

\* C12: for every pair of QoS levels less_value(a, b) = less_value(b, a) = the
\* level whose numeric value is the smaller of value(a) and value(b).
C12_LessValue ==
    Applied("less_value") =>
        /\ fcall.r = LevelOf(Smaller(value(fcall.a), value(fcall.b)))
        /\ less_value(fcall.b, fcall.a) = fcall.r

\* the receiver is the higher level
C12_Witness ==
    /\ Applied("less_value")
    /\ fcall.a = "ExactlyOnce" /\ fcall.b = "AtMostOnce"
    /\ fcall.r = "AtMostOnce"

\* the lower of two granted values
LowerGrant(a, b) ==
    IF "GrantedQos0" \in {a, b} THEN "GrantedQos0"
    ELSE IF "GrantedQos1" \in {a, b} THEN "GrantedQos1"
    ELSE "GrantedQos2"

\* C13: when both arguments of v5_merge are granted values the result is the
\* lower grant, whatever the order of the arguments.
C13_V5MergeGranted ==
    (Applied("v5_merge") /\ fcall.a \in GrantedReasons /\ fcall.b \in GrantedReasons)
        => /\ fcall.r = LowerGrant(fcall.a, fcall.b)
           /\ v5_merge(fcall.b, fcall.a) = fcall.r

\* the receiver holds GrantedQos0, the merged acknowledgement GrantedQos1
C13_Witness ==
    /\ Applied("v5_merge")
    /\ fcall.a = "GrantedQos0" /\ fcall.b = "GrantedQos1"
    /\ fcall.r = "GrantedQos0"

(***************************************************************************)
(* Further properties of SubscribeAck::merge_from, checked under SpecAck   *)
(***************************************************************************)
Merging == mcall.outcome # "none"

\* C14: a merge_from of two acknowledgements of one variant whose vectors
\* differ in length ends in an error reported to the caller, the receiver's
\* vector neither padded nor truncated.
C14_LengthMismatchIsError ==
    (/\ Merging
     /\ mcall.before.variant = mcall.merged.variant
     /\ Len(mcall.before.status) # Len(mcall.merged.status))
        => /\ mcall.outcome = "error"
           /\ ack.status = mcall.before.status

\* C16: a merge_from of acknowledgements of different variants returns
\* normally and leaves the receiver as it was.
C16_CrossVariantNoOp ==
    (Merging /\ mcall.before.variant # mcall.merged.variant)
        => /\ mcall.outcome = "ok"
           /\ ack = mcall.before

\* a V5 acknowledgement with statuses, reason and properties merged into a V3 one
C16_Witness ==
    /\ Merging
    /\ mcall.before.variant = "V3" /\ Len(mcall.before.status) = 1
    /\ mcall.merged.variant = "V5" /\ Len(mcall.merged.status) = 1
    /\ mcall.merged.reason_string # None /\ mcall.merged.properties # <<>>

\* C17: a V5 merge_from of acknowledgements of equal length leaves the reason
\* string "r1, r2" when both carry one, the one present when one does, none
\* when neither does, and leaves the receiver's properties followed by the
\* merged acknowledgement's, duplicates kept.  (The reason string and the
\* properties are merged before the statuses, so this holds of the receiver
\* also when the status loop aborts.)
C17_ReasonAndProperties ==
    (SameShape /\ mcall.before.variant = "V5") =>
        LET r1 == mcall.before.reason_string
            r2 == mcall.merged.reason_string
        IN  /\ (r1 # None /\ r2 # None) => ack.reason_string = Some(r1[1] \o ", " \o r2[1])
            /\ (r1 # None /\ r2 = None) => ack.reason_string = r1
            /\ (r1 = None /\ r2 # None) => ack.reason_string = r2
            /\ (r1 = None /\ r2 = None) => ack.reason_string = None
            /\ Len(ack.properties) = Len(mcall.before.properties) + Len(mcall.merged.properties)
            /\ \A i \in 1..Len(mcall.before.properties) :
                   ack.properties[i] = mcall.before.properties[i]
            /\ \A i \in 1..Len(mcall.merged.properties) :
                   ack.properties[Len(mcall.before.properties) + i] = mcall.merged.properties[i]

\* a merge that returned, of two acknowledgements with different reasons and the same property
C17_Witness ==
    /\ SameShape /\ mcall.before.variant = "V5" /\ mcall.outcome = "ok"
    /\ Len(mcall.before.status) = 1
    /\ mcall.before.reason_string = Some("r1") /\ mcall.merged.reason_string = Some("r2")
    /\ mcall.before.properties = <<"k1">> /\ mcall.merged.properties = <<"k1">>
    /\ ack.reason_string = Some("r1, r2")
    /\ ack.properties = <<"k1", "k1">>

(***************************************************************************)
(* Properties of Subscribe and Unsubscribe, checked under SpecSub          *)
(***************************************************************************)
\* the number of entries of the packet the last call was made on, before the call
EntriesBefore == IF scall.target = "Subscribe" THEN len(scall.sub) ELSE len(scall.unsub)

\* C15: adjust_topic_filters on a Subscribe or an Unsubscribe, V3 or V5, with
\* N entries and a replacement list of another length returns an error and
\* leaves the packet, filters and QoS/options, as it was.
C15_AdjustMismatch ==
    (scall.op = "adjust_topic_filters" /\ Len(scall.arg) # EntriesBefore)
        => /\ scall.result = "ServiceUnavailable"
           /\ sub = scall.sub
           /\ unsub = scall.unsub

\* a V5 Subscribe of two entries given one replacement, different from its first filter
C15_Witness ==
    /\ scall.op = "adjust_topic_filters" /\ scall.target = "Subscribe"
    /\ scall.sub.variant = "V5" /\ len(scall.sub) = 2 /\ Len(scall.arg) = 1
    /\ to_string(scall.arg[1]) # scall.sub.v5[1][1]

(***************************************************************************)
(* Hook dispatch                                                           *)
(***************************************************************************)
\* the priorities of the chain's handler calls, in the order of invocation
CallPriorities == [i \in 1..Len(chain.calls) |-> chain.calls[i].priority]

\* the handlers of the chain's calls, in the order of invocation
CallIds == [i \in 1..Len(chain.calls) |-> chain.calls[i].id]

\* C18: within one dispatch chain the handlers of the event kind are invoked in
\* ascending numeric priority, whatever the order add_priority registered them
\* in, and one after another: a handler is invoked only when every handler
\* invoked before it has returned, so at most one handler of the chain runs.
C18_DispatchOrder ==
    /\ \A i, j \in 1..Len(chain.calls) :
          i < j => /\ chain.calls[i].priority <= chain.calls[j].priority
                   /\ ~chain.calls[i].pending
    /\ Cardinality(chain.inflight) <= 1
    /\ \A i \in 1..Len(chain.calls) :
          \E k \in 1..Len(hooks[chain.type]) : hooks[chain.type][k].id = chain.calls[i].id

\* handlers registered for one kind at priorities 10, 5, 20, in that order, have
\* run in the order 5, 10, 20
C18_Witness ==
    /\ chain.state = "done"
    /\ Len(hooks[chain.type]) = 3
    /\ \A k \in 1..3 : \E e \in {hooks[chain.type][n] : n \in 1..3} :
          e.id = k /\ e.priority = <<10, 5, 20>>[k]
    /\ CallPriorities = <<5, 10, 20>>
    /\ CallIds = <<2, 1, 3>>

\* C19: within one dispatch chain the first handler receives the absent
\* accumulated result, each later handler receives exactly the accumulated result
\* its immediate predecessor returned, and dispatch returns the last handler's
\* accumulated result with matched = TRUE if a handler matched, and the absent
\* result with matched = FALSE if none did.
C19_Accumulation ==
    /\ chain.calls # <<>> => chain.calls[1].given = None
    /\ \A i \in 1..(Len(chain.calls) - 1) :
          chain.calls[i + 1].given = chain.calls[i].returned
    /\ chain.state = "done" =>
          chain.result =
              IF \E i \in 1..Len(chain.calls) : chain.calls[i].matched
              THEN <<chain.calls[Len(chain.calls)].returned, TRUE>>
              ELSE <<None, FALSE>>

\* a chain of two or more handlers is through: the first returned a result of its
\* own, the second was handed it, and dispatch returned the last one's result
C19_Witness ==
    /\ chain.state = "done"
    /\ Len(chain.calls) >= 2
    /\ chain.calls[1].returned = Some(chain.calls[1].id)
    /\ chain.calls[2].given = chain.calls[1].returned
    /\ chain.result = <<chain.calls[Len(chain.calls)].returned, TRUE>>
    /\ chain.result[1] # None

(***************************************************************************)
(* The Manager under concurrent tasks                                      *)
(***************************************************************************)
\* task t is suspended inside the Plugin callback awaited by its start, stop or
\* load_config call
SuspendedInCallback(t) ==
    tasks[t].op \in MutOps /\ tasks[t].pc \in {"init", "start", "stop", "load_config"}

\* task u is at a step of its call that needs the lock of its name's shard
AtLock(u) == tasks[u].pc \in {"acquire", "insert"}

\* C20: Manager operations on different module names never contend: while a
\* start, stop or load_config call on module A is suspended inside A's callback,
\* a concurrent Manager operation on a different module B is never kept waiting by
\* it: whenever that operation needs the map, it can proceed.
C20_NoContention ==
    \A t, u \in Tasks :
       (SuspendedInCallback(t) /\ AtLock(u) /\ tasks[u].name # tasks[t].name)
          => (CanProceed(u) /\ locks[shardOf[tasks[u].name]].writer # t)

(***************************************************************************)
(* Id                                                                      *)
(***************************************************************************)
\* the two argument lists agree on node_id, local_addr, remote_addr and client_id
SameFour ==
    \A k \in 1..4 : idcall.args[1][k] = idcall.args[2][k]

\* C21: two identities built by Id::new from the same node_id, local_addr,
\* remote_addr and client_id compare equal and hash equal, whatever their user
\* names are (different, or one or both absent).
C21_IdEqHash ==
    (idcall.op \in {"eq", "hash"} /\ SameFour) =>
        /\ idcall.op = "eq" => idcall.eq
        /\ idcall.op = "hash" => idcall.ha = idcall.hb

\* two identities that differ in the user name only, one of them without a user
\* name, were compared and found equal
C21_Witness ==
    /\ idcall.op = "eq" /\ SameFour
    /\ idcall.args[1][5] = None /\ idcall.args[2][5] # None
    /\ idcall.a.username # idcall.b.username
    /\ idcall.eq

(***************************************************************************)
(* Subscribe and Unsubscribe                                               *)
(***************************************************************************)
\* the last call was `op` on a Subscribe of the given variant
SubscribeCall(op, variant) ==
    scall.op = op /\ scall.target = "Subscribe" /\ scall.sub.variant = variant

\* C22: on a V5 Subscribe remove, set_qos_if_less and topic_filter change nothing:
\* whatever the argument, the filter list and the options are as before the
\* call, and topic_filter returns None for every index, those in range included.
C22_V5Stubs ==
    \A op \in {"remove", "set_qos_if_less", "topic_filter"} :
       SubscribeCall(op, "V5") =>
          /\ sub = scall.sub
          /\ op = "topic_filter" => scall.result = None

\* topic_filter(0) on a V5 Subscribe that has an entry 0 returned None
C22_Witness ==
    /\ SubscribeCall("topic_filter", "V5")
    /\ Len(scall.sub.v5) >= 1 /\ scall.arg = <<0>>
    /\ scall.result = None /\ sub = scall.sub

\* C27: adjust_topic_filters with a replacement list of the packet's length N
\* succeeds and replaces strictly by position: entry i's filter is replacement i
\* (written as a string in a V5 packet), there are still N entries, and in a
\* Subscribe each entry keeps its QoS / options.
C27_AdjustByPosition ==
    (scall.op = "adjust_topic_filters") =>
       /\ (scall.target = "Subscribe" /\ Len(scall.arg) = len(scall.sub)) =>
             /\ scall.result = "Ok"
             /\ sub.variant = scall.sub.variant /\ len(sub) = Len(scall.arg)
             /\ \A i \in 1..Len(scall.arg) :
                   IF sub.variant = "V3"
                   THEN sub.v3[i] = <<scall.arg[i], scall.sub.v3[i][2]>>
                   ELSE sub.v5[i] = <<to_string(scall.arg[i]), scall.sub.v5[i][2]>>
       /\ (scall.target = "Unsubscribe" /\ Len(scall.arg) = len(scall.unsub)) =>
             /\ scall.result = "Ok"
             /\ unsub.variant = scall.unsub.variant /\ len(unsub) = Len(scall.arg)
             /\ \A i \in 1..Len(scall.arg) :
                   IF unsub.variant = "V3"
                   THEN unsub.v3[i] = scall.arg[i]
                   ELSE unsub.v5[i] = to_string(scall.arg[i])

\* a V3 Subscribe of two entries took two different replacement filters, each at
\* its position, and kept its two different QoS
C27_Witness ==
    /\ SubscribeCall("adjust_topic_filters", "V3")
    /\ Len(scall.arg) = 2 /\ Len(scall.sub.v3) = 2
    /\ scall.arg[1] # scall.arg[2]
    /\ scall.sub.v3[1][2] # scall.sub.v3[2][2]
    /\ scall.sub.v3[1][1] # scall.arg[1]
    /\ sub.v3 = <<<<scall.arg[1], scall.sub.v3[1][2]>>, <<scall.arg[2], scall.sub.v3[2][2]>>>>

\* the lower of two QoS
MinQoS(a, b) == IF value(a) <= value(b) THEN a ELSE b

\* C28: on a V3 Subscribe set_qos_if_less(filter, qos) raises no QoS: every entry
\* with that filter, duplicates included, has QoS min(old QoS, qos), every other
\* entry is as before, the entries are as many and in the same order, and a
\* second call with the same arguments would change nothing.
C28_SetQosIfLess ==
    SubscribeCall("set_qos_if_less", "V3") =>
       /\ Len(sub.v3) = Len(scall.sub.v3)
       /\ \A i \in 1..Len(sub.v3) :
             /\ sub.v3[i][1] = scall.sub.v3[i][1]
             /\ value(sub.v3[i][2]) <= value(scall.sub.v3[i][2])
             /\ sub.v3[i][2] = IF scall.sub.v3[i][1] = scall.arg[1]
                               THEN MinQoS(scall.sub.v3[i][2], scall.arg[2])
                               ELSE scall.sub.v3[i][2]
       /\ Subscribe_set_qos_if_less(sub, scall.arg[1], scall.arg[2]) = sub

\* two entries with the filter of the call: the one above the QoS of the call was
\* lowered to it, the one below it kept its QoS
C28_Witness ==
    /\ SubscribeCall("set_qos_if_less", "V3")
    /\ Len(sub.v3) = 2
    /\ scall.sub.v3[1][1] = scall.arg[1] /\ scall.sub.v3[2][1] = scall.arg[1]
    /\ scall.arg[2] = "AtLeastOnce"
    /\ scall.sub.v3[1][2] = "ExactlyOnce" /\ sub.v3[1][2] = "AtLeastOnce"
    /\ scall.sub.v3[2][2] = "AtMostOnce" /\ sub.v3[2][2] = "AtMostOnce"

(***************************************************************************)
(* NewcapecHandler                                                         *)
(***************************************************************************)
\* C29: NewcapecHandler::hook only observes: for every Parameter and every prior
\* accumulated result acc it returns acc as it was given, and its matched flag
\* is TRUE exactly for the ClientConnect and ClientConnack parameters.
C29_PureObserver ==
    hcall.op = "hook" =>
       /\ hcall.ret[2] = hcall.acc
       /\ hcall.ret[1] = (hcall.param.variant \in {"ClientConnect", "ClientConnack"})

\* the handler was given a parameter of another kind and a present result: it
\* returned the result and matched = FALSE
C29_Witness ==
    /\ hcall.op = "hook"
    /\ hcall.param.variant = "MessagePublish"
    /\ hcall.acc # None
    /\ hcall.ret = <<FALSE, hcall.acc>>

(***************************************************************************)
(* Publish                                                                 *)
(***************************************************************************)
\* C30: for a V3 and for a V5 Publish, after set_packet_id(n) with n in 1..65535
\* packet_id() returns Some(n) and packet_id_is_none() is FALSE; after
\* set_packet_id(0) packet_id() returns None and packet_id_is_none() is TRUE; and
\* payload, topic, qos, dup and retain are as before the call.
C30_PacketIdRoundTrip ==
    pubcall.op = "set_packet_id" =>
       /\ [pub EXCEPT !.packet_id = pubcall.before.packet_id] = pubcall.before
       /\ "packet_id" \in pubcall.read =>
             pubcall.packet_id = IF pubcall.arg = 0 THEN None ELSE Some(pubcall.arg)
       /\ "is_none" \in pubcall.read => pubcall.is_none = (pubcall.arg = 0)

\* a V5 Publish that had a packet id was given 0: both accessors report no id
C30_Witness ==
    /\ pubcall.op = "set_packet_id" /\ pubcall.arg = 0
    /\ pub.variant = "V5" /\ pubcall.before.packet_id = Some(65535)
    /\ pubcall.read = {"packet_id", "is_none"}
    /\ pubcall.packet_id = None /\ pubcall.is_none

(***************************************************************************)
(* The Manager across sequences of calls                                   *)
(***************************************************************************)
\* C23: across any sequence of Manager calls the init callback of a module
\* instance is invoked at most once: no instance has its init invoked again.
C23_InitAtMostOnce == inits.again = {}

\* C24: a register call that returns an error (the stop of the module it
\* replaces, or the init or start of the new module failed) leaves the directory
\* as it was: the module registered under the name before is still there with
\* its inited and active flags.
C24_RegisterErrorLeavesDirectory ==
    (last.op = "register" /\ last.result = "Err") => plugins = before

\* no Manager call is in progress
Quiescent == \A t \in Tasks : tasks[t].pc = "idle"

\* C25: after any interleaving of concurrent register, start and stop calls, for
\* every name at most one module instance is running, and it is the one stored
\* in the directory: every running instance is the plugin of its name's entry.
C25_RunningIsStored ==
    Quiescent =>
       \A r \in running :
          r.name \in DOMAIN plugins /\ plugins[r.name].plugin = r.inst

\* task t holds the entry of its name inside the awaited Plugin callback
HoldsEntry(t) == tasks[t].pc \in {"init", "start", "stop", "load_config", "get_config", "send"}

\* the call of task t can take its next step: its callback can complete on a
\* worker thread, or its DashMap call gets the lock
Advance(t) ==
    CASE tasks[t].pc = "idle" -> FALSE
      [] tasks[t].pc \in {"acquire", "insert"} -> Runs(t) /\ CanProceed(t)
      [] OTHER -> FreeWorker

\* C26: the Manager does not deadlock: while a call on a name is suspended in a
\* Plugin callback holding the entry and another task has a call on the same
\* name in progress, some call in progress can take its next step (callbacks
\* complete whenever they are polled).
C26_NoDeadlock ==
    \A t, u \in Tasks :
       (t # u /\ HoldsEntry(t) /\ tasks[u].pc # "idle" /\ tasks[u].name = tasks[t].name)
          => \E w \in Tasks : Advance(w)

====
